---- MODULE Spec2Model ----
(***************************************************************************)
(* Model of the decentralized ring messenger (src/client.py, ChatClient).  *)
(*                                                                         *)
(* Text is a sequence of code points, the wire is a sequence of bytes.     *)
(* Every node is a ChatClient process on a host of its own; a connection   *)
(* is a pair of endpoints, each with the byte stream still to be read.     *)
(***************************************************************************)
EXTENDS Integers, Sequences, FiniteSets, Bags, TLC

(***************************************************************************)
(* Bounds of the model.                                                    *)
(***************************************************************************)
\* connections that may be opened in one behaviour
MaxConn == 6
\* chat lines typed in one behaviour of the ring specifications
MaxSends == 2
\* chat lines typed in one behaviour of SpecIdle, of SpecBad and of SpecFail
MaxIdleSends == 1
\* chat lines typed in one behaviour of SpecHist
MaxLines == 66
\* times the first line is typed again in one behaviour of SpecHist
MaxRepeats == 1
\* code points of a text handed to pack_message and unpacked again in SpecCodec
MaxText == 3

(***************************************************************************)
(* Program constants.                                                      *)
(***************************************************************************)
\* queue.Queue(maxsize=64)
HistoryMax == 64
\* struct.calcsize("<BHH")
HeaderSize == 5
\* Command enumeration
PRINT_MESSAGE == 0
DISCONNECTED_MESSAGE == 1
CONNECTED_MESSAGE == 2
GIVE_ID == 3
HANDLE_NEW_CONNECTION == 4
\* 10 ** 9, the modulus of an id
IdModulus == 1000000000
\* the largest value of an "H" field of the header "<BHH"
MaxTotal == 65535

(***************************************************************************)
(* Sequences, text and bytes.                                              *)
(***************************************************************************)
Range(s) == {s[i] : i \in 1..Len(s)}

Take(s, k) == SubSeq(s, 1, IF k < Len(s) THEN k ELSE Len(s))

Drop(s, k) == SubSeq(s, k + 1, Len(s))

\* the last k elements of s (all of s when it is shorter)
LastK(s, k) == IF Len(s) <= k THEN s ELSE SubSeq(s, Len(s) - k + 1, Len(s))

Distinct(s) == \A i, j \in 1..Len(s) : s[i] = s[j] => i = j

NoText == <<>>

\* code points str.strip() removes: space, \t, \n, \v, \f, \r
Whitespace == {32, 9, 10, 11, 12, 13}

RECURSIVE LStrip(_)
LStrip(s) == IF s # <<>> /\ Head(s) \in Whitespace THEN LStrip(Tail(s)) ELSE s

RECURSIVE RStrip(_)
RStrip(s) ==
    IF s # <<>> /\ s[Len(s)] \in Whitespace THEN RStrip(SubSeq(s, 1, Len(s) - 1)) ELSE s

\* str.strip()
Strip(s) == RStrip(LStrip(s))

\* str.encode(): UTF-8, for code points below 2048 (one or two bytes)
RECURSIVE Utf8Encode(_)
Utf8Encode(s) ==
    IF s = <<>> THEN <<>>
    ELSE IF \A i \in 1..Len(s) : s[i] < 128 THEN s
    ELSE IF Head(s) < 128 THEN <<Head(s)>> \o Utf8Encode(Tail(s))
    ELSE <<192 + (Head(s) \div 64), 128 + (Head(s) % 64)>> \o Utf8Encode(Tail(s))

\* bytes.decode() succeeds
RECURSIVE Utf8Valid(_)
Utf8Valid(b) ==
    IF b = <<>> THEN TRUE
    ELSE IF Head(b) < 128 THEN Utf8Valid(Tail(b))
    ELSE IF Head(b) >= 194 /\ Head(b) < 224 /\ Len(b) >= 2 /\ b[2] >= 128 /\ b[2] < 192
         THEN Utf8Valid(Drop(b, 2))
    ELSE FALSE

\* bytes.decode(), where it succeeds
RECURSIVE Utf8Decode(_)
Utf8Decode(b) ==
    IF b = <<>> THEN <<>>
    ELSE IF Head(b) < 128 THEN <<Head(b)>> \o Utf8Decode(Tail(b))
    ELSE <<(Head(b) - 192) * 64 + (b[2] - 128)>> \o Utf8Decode(Drop(b, 2))

Digits == 48..57

\* str(int) of a natural number
RECURSIVE StrOfInt(_)
StrOfInt(i) == IF i < 10 THEN <<48 + i>> ELSE StrOfInt(i \div 10) \o <<48 + (i % 10)>>

\* int(str) succeeds: a non-empty run of decimal digits
IsNumber(s) == s # <<>> /\ \A i \in 1..Len(s) : s[i] \in Digits

RECURSIVE IntOfStr(_)
IntOfStr(s) ==
    IF s = <<>> THEN 0 ELSE IntOfStr(SubSeq(s, 1, Len(s) - 1)) * 10 + (s[Len(s)] - 48)

Colon == 58

\* str.split(":")
RECURSIVE SplitFrom(_, _)
SplitFrom(s, cur) ==
    IF s = <<>> THEN <<cur>>
    ELSE IF Head(s) = Colon THEN <<cur>> \o SplitFrom(Tail(s), <<>>)
    ELSE SplitFrom(Tail(s), Append(cur, Head(s)))

Split(s) == SplitFrom(s, <<>>)

(***************************************************************************)
(* zlib.crc32: the reflected CRC-32, computed a byte at a time from the    *)
(* table of byte remainders.  A 32-bit word is <<high 16 bits, low 16      *)
(* bits>>; the table is built bit by bit, a word being the set of its      *)
(* 1-bits.                                                                 *)
(***************************************************************************)
Bit(i) == 2 ^ i

BitsOf(v, w) == {i \in 0..(w - 1) : (v \div Bit(i)) % 2 = 1}

RECURSIVE BitsValue(_, _)
BitsValue(bits, i) ==
    IF i < 0 THEN 0 ELSE (IF i \in bits THEN Bit(i) ELSE 0) + BitsValue(bits, i - 1)

XorBits(a, b) == (a \ b) \cup (b \ a)

\* 0xEDB88320
CrcPoly == {31, 30, 29, 27, 26, 24, 23, 21, 20, 19, 15, 9, 8, 5}

ShiftRight(a) == {i - 1 : i \in a \ {0}}

\* k times: crc = (crc >> 1) ^ 0xEDB88320 if crc & 1 else crc >> 1
RECURSIVE CrcShift(_, _)
CrcShift(crc, k) ==
    IF k = 0 THEN crc
    ELSE CrcShift(IF 0 \in crc THEN XorBits(ShiftRight(crc), CrcPoly) ELSE ShiftRight(crc), k - 1)

WordOf(bits) == <<BitsValue({i - 16 : i \in bits \cap (16..31)}, 15), BitsValue(bits \cap (0..15), 15)>>

CrcTable == [b \in 0..255 |-> WordOf(CrcShift(BitsOf(b, 8), 8))]

\* exclusive or of two 4-bit, 8-bit and 16-bit numbers
Xor4 == [a \in 0..15 |-> [b \in 0..15 |-> BitsValue(XorBits(BitsOf(a, 4), BitsOf(b, 4)), 3)]]

Xor8(a, b) == Xor4[a \div 16][b \div 16] * 16 + Xor4[a % 16][b % 16]

Xor16(a, b) == Xor8(a \div 256, b \div 256) * 256 + Xor8(a % 256, b % 256)

\* crc = table[(crc ^ byte) & 0xFF] ^ (crc >> 8)
CrcStep(crc, byte) ==
    LET t == CrcTable[Xor8(crc[2] % 256, byte)]
    IN  <<Xor16(t[1], crc[1] \div 256), Xor16(t[2], (crc[1] % 256) * 256 + crc[2] \div 256)>>

RECURSIVE CrcBytes(_, _)
CrcBytes(crc, data) ==
    IF crc # <<>> /\ data = <<>> THEN crc  \* (the comparison forces the value of crc at every byte)
    ELSE CrcBytes(CrcStep(crc, Head(data)), Tail(data))

\* zlib.crc32(data): start from 0xFFFFFFFF, complement at the end
crc32(data) ==
    LET c == CrcBytes(<<65535, 65535>>, data) IN <<65535 - c[1], 65535 - c[2]>>

(***************************************************************************)
(* The wire codec: ChatClient.pack_message and ChatClient.unpack_message.  *)
(***************************************************************************)
\* struct's "<k>s": the value cut or zero-padded to exactly k bytes
FixedBytes(b, k) ==
    IF Len(b) >= k THEN SubSeq(b, 1, k) ELSE b \o [i \in 1..(k - Len(b)) |-> 0]

\* struct's "H", little-endian
U16(v) == <<v % 256, v \div 256>>

\* pack_message: ok is FALSE where struct.pack raises struct.error
pack_message(nick, command, message) ==
    LET msg == Utf8Encode(Strip(message))
        total == Len(nick) + Len(msg)
    IN  IF command \notin 0..255 \/ total > 65535
        THEN [ok |-> FALSE, data |-> <<>>]
        ELSE [ok |-> TRUE,
              data |-> <<command>> \o U16(total) \o U16(Len(nick))
                       \o FixedBytes(Utf8Encode(nick), Len(nick)) \o msg]

HeaderLength(hdr) == hdr[2] + 256 * hdr[3]

HeaderNickLength(hdr) == hdr[4] + 256 * hdr[5]

Commands == {PRINT_MESSAGE, DISCONNECTED_MESSAGE, CONNECTED_MESSAGE, GIVE_ID,
             HANDLE_NEW_CONNECTION}

\* unpack_message: ok is FALSE where it prints "Failed to unpack" and returns None
unpack_message(data) ==
    LET bad == [ok |-> FALSE, command |-> 0, nickname |-> <<>>, message |-> <<>>]
    IN  IF Len(data) < HeaderSize THEN bad
        ELSE LET dl == HeaderLength(data)
                 nl == HeaderNickLength(data)
                 body == Drop(data, HeaderSize)
             IN  IF data[1] \notin Commands THEN bad
                 ELSE IF Len(body) < dl THEN bad
                 ELSE IF nl > dl THEN bad
                 ELSE LET nb == SubSeq(body, 1, nl)
                          mb == SubSeq(body, nl + 1, dl)
                      IN  IF ~(Utf8Valid(nb) /\ Utf8Valid(mb)) THEN bad
                          ELSE [ok |-> TRUE, command |-> data[1],
                                nickname |-> Utf8Decode(nb), message |-> Utf8Decode(mb)]

(***************************************************************************)
(* Nodes, addresses and connection objects.                                *)
(***************************************************************************)
Node == {"A", "B", "C"}

\* get_my_ip(): every node runs on a host of its own
Host(n) == CASE n = "A" -> <<65>> [] n = "B" -> <<66>> [] n = "C" -> <<67>> [] OTHER -> <<68>>

\* find_free_port(): the port the node's listener is bound to
ListenPort(n) == CASE n = "A" -> 71 [] n = "B" -> 72 [] n = "C" -> 73 [] OTHER -> 74

\* the local port the operating system gives the dialing end of connection c
PeerPort(c) == 80 + c

\* the two ends of connection c; 0 stands for "no reader, no writer"
DialEnd(c) == 2 * c - 1

AcceptEnd(c) == 2 * c

ConnOf(e) == (e + 1) \div 2

PeerEnd(e) == IF e % 2 = 1 THEN e + 1 ELSE e - 1

Ends == 1..(2 * (MaxConn + 1))

\* a UserConnection object: oid tells the objects of one process apart
UserConnection(oid, host, port, ep) == [oid |-> oid, host |-> host, port |-> port, ep |-> ep]

\* Python's None in a neighbor slot
None == [oid |-> -1, host |-> <<>>, port |-> -1, ep |-> 0]

\* ChatClient.me: UserConnection(get_my_ip(), find_free_port())
me(n) == UserConnection(0, Host(n), ListenPort(n), 0)

\* UserConnection.__str__
StrOf(u) == u.host \o <<Colon>> \o StrOfInt(u.port)

\* hash(text) % 10 ** 9: a fixed function of the text
RECURSIVE HashMod(_, _)
HashMod(h, s) == IF s = <<>> THEN h ELSE HashMod((h * 2 + Head(s)) % IdModulus, Tail(s))

\* str(hash(str(u)) % 10 ** 9)
IdOf(u) == StrOfInt(HashMod(7, StrOf(u)))

(***************************************************************************)
(* The state.  The fields of ChatClient keep their names; one value per    *)
(* node.                                                                   *)
(***************************************************************************)
VARIABLES
    status,              \* "off", "hs1", "hs2" (start_connection), "running", "exited"
    exitCause,           \* the exception that ended the process, "" while it runs
    left_node,           \* ChatClient.left_node
    right_node,          \* ChatClient.right_node
    nickname,            \* ChatClient.nickname
    history,             \* ChatClient.history, the queue.Queue(maxsize=64)
    passed_messages,     \* ChatClient.passed_messages
    awaited_connection,  \* ChatClient.awaited_connection (a list)
    new_node,            \* ChatClient.new_node
    nextOid,             \* number of UserConnection objects the process has made
    tasks,               \* the two process_node tasks of receive_messages
    conns,               \* the connections opened so far
    inbox,               \* per end: bytes written by the peer and not yet read
    epState,             \* per end: "open", "closed" (writer.close()), "reset" (process gone)
    lost,                \* per end: the transport has reported connection_lost
    dispatched,          \* per node: bag of frames a command handler completed for
    relayed,             \* per node: bag of the frames written by process_stream's forwarding
    originated,          \* per node: set of frames it packed and wrote to its left or right neighbor
    recorded,            \* per node: every fingerprint put into history, in order
    typed,               \* per node: bag of chat frames process_input sent
    timedOut,            \* per node: ends on which a read of process_stream timed out
    framesRead,          \* per node: the <<end, frame>> read whole since a line was last typed (end 0: the line itself)
    caught,              \* per node: exceptions process_node caught and printed
    injected,            \* the <<end, bytes>> that reached an end and are no frame of the protocol
    codec,               \* the last pack_message call on a short text, and unpack_message of its result
    sized                \* the last pack_message call on a long text: the sizes that went in and came out

vars == <<status, exitCause, left_node, right_node, nickname, history, passed_messages,
          awaited_connection, new_node, nextOid, tasks, conns, inbox, epState, lost,
          dispatched, relayed, originated, recorded, typed, timedOut, framesRead,
          caught, injected, codec, sized>>

\* the state as one record; exc is the exception being raised, susp the
\* connection an awaited open_connection is suspended on
World ==
    [status |-> status, exitCause |-> exitCause, left_node |-> left_node,
     right_node |-> right_node, nickname |-> nickname, history |-> history,
     passed_messages |-> passed_messages, awaited_connection |-> awaited_connection,
     new_node |-> new_node, nextOid |-> nextOid, tasks |-> tasks, conns |-> conns,
     inbox |-> inbox, epState |-> epState, lost |-> lost, dispatched |-> dispatched,
     relayed |-> relayed, originated |-> originated, recorded |-> recorded,
     typed |-> typed, timedOut |-> timedOut, framesRead |-> framesRead, caught |-> caught,
     injected |-> injected, codec |-> codec, sized |-> sized,
     exc |-> "", susp |-> 0]

\* the step's result becomes the next state
SetWorld(w) ==
    /\ status' = w.status
    /\ exitCause' = w.exitCause
    /\ left_node' = w.left_node
    /\ right_node' = w.right_node
    /\ nickname' = w.nickname
    /\ history' = w.history
    /\ passed_messages' = w.passed_messages
    /\ awaited_connection' = w.awaited_connection
    /\ new_node' = w.new_node
    /\ nextOid' = w.nextOid
    /\ tasks' = w.tasks
    /\ conns' = w.conns
    /\ inbox' = w.inbox
    /\ epState' = w.epState
    /\ lost' = w.lost
    /\ dispatched' = w.dispatched
    /\ relayed' = w.relayed
    /\ originated' = w.originated
    /\ recorded' = w.recorded
    /\ typed' = w.typed
    /\ timedOut' = w.timedOut
    /\ framesRead' = w.framesRead
    /\ caught' = w.caught
    /\ injected' = w.injected
    /\ codec' = w.codec
    /\ sized' = w.sized

Raise(w, e) == [w EXCEPT !.exc = e]

\* no call of the codec has been made
NoCall == [st |-> "idle", command |-> 0, nick |-> NoText, message |-> NoText,
           ok |-> FALSE, data |-> <<>>, out |-> [ok |-> FALSE]]

NoSizedCall == [st |-> "idle", nick |-> 0, size |-> 0, ok |-> FALSE, total |-> 0, nickLen |-> 0]

\* a process_node task: the reader and writer it was created with, the bytes of a
\* frame it holds while suspended, and the connection it is dialing
NoTask == [st |-> "none", reader |-> 0, writer |-> 0, buf |-> <<>>, conn |-> 0]

Sides == {"R", "L"}

(***************************************************************************)
(* Writing and the dedup history.                                          *)
(***************************************************************************)
\* send_message(data, writer): writer.write(data); await writer.drain()
send_message(w, data, ep) ==
    IF ep = 0 THEN w
    ELSE IF w.lost[ep] THEN Raise(w, "ConnectionError")
    ELSE IF w.epState[ep] # "open" \/ w.epState[PeerEnd(ep)] # "open" THEN w
    ELSE [w EXCEPT !.inbox[PeerEnd(ep)] = @ \o data]

\* send_message of a frame the node packed itself
SendOwn(w, n, data, ep) ==
    send_message(IF ep \in {w.left_node[n].ep, w.right_node[n].ep} \ {0}
                 THEN [w EXCEPT !.originated[n] = @ \cup {data}] ELSE w, data, ep)

\* send_message of a received frame, forwarded unchanged
Forward(w, n, data, ep) ==
    send_message(IF ep = 0 THEN w ELSE [w EXCEPT !.relayed[n] = @ (+) SetToBag({data})],
                 data, ep)

\* a history that makes room by giving up its newest entry
RecordHashEvictNewest(w, n, h) ==
    LET full == Len(w.history[n]) >= HistoryMax
        deleted == w.history[n][Len(w.history[n])]
        hist == IF full THEN Take(w.history[n], Len(w.history[n]) - 1) ELSE w.history[n]
    IN  IF full /\ deleted \notin w.passed_messages[n]
        THEN Raise([w EXCEPT !.history[n] = hist], "KeyError")
        ELSE [w EXCEPT !.history[n] = Append(hist, h),
                       !.passed_messages[n] =
                           (IF full THEN @ \ {deleted} ELSE @) \cup {h},
                       !.recorded[n] = Append(@, h)]

\* if self.history.full(): passed_messages.remove(history.get())
\* passed_messages.add(h); history.put(h)
RecordHash(w, n, h) ==
    LET full == Len(w.history[n]) >= HistoryMax
        deleted == Head(w.history[n])
        hist == IF full THEN Tail(w.history[n]) ELSE w.history[n]
    IN  IF full /\ deleted \notin w.passed_messages[n]
        THEN Raise([w EXCEPT !.history[n] = hist], "KeyError")
        ELSE [w EXCEPT !.history[n] = Append(hist, h),
                       !.passed_messages[n] =
                           (IF full THEN @ \ {deleted} ELSE @) \cup {h},
                       !.recorded[n] = Append(@, h)]

(***************************************************************************)
(* Dialing.                                                                *)
(***************************************************************************)
\* the nodes whose listener is bound to host:port
Listeners(w, host, port) ==
    {m \in Node : Host(m) = host /\ ListenPort(m) = port /\ w.status[m] = "running"}

\* asyncio.open_connection(host, port) by n: the new connection, not yet
\* handed to the acceptor's handle_connection; susp names it
OpenConnection(w, n, host, port) ==
    IF Listeners(w, host, port) = {} THEN Raise(w, "ConnectionError")
    ELSE LET m == CHOOSE x \in Listeners(w, host, port) : TRUE
             c == Len(w.conns) + 1
         IN  [w EXCEPT !.conns = Append(@, [dialer |-> n, acceptor |-> m, accepted |-> FALSE]),
                       !.susp = c]

\* a new UserConnection object of process n
NewObject(w, n, host, port, ep) == UserConnection(w.nextOid[n] + 1, host, port, ep)

CountObject(w, n) == [w EXCEPT !.nextOid[n] = @ + 1]

(***************************************************************************)
(* The command handlers.                                                   *)
(***************************************************************************)
Log(w, n, full) == [w EXCEPT !.dispatched[n] = @ (+) SetToBag({full})]

\* self.right_node.reader, self.right_node.writer = <the dialed connection>:
\* the object then in the right slot is changed, under every name it has
FinishDial(w, n, c) ==
    LET oid == w.right_node[n].oid
        fix(u) == IF u.oid = oid /\ u # None THEN [u EXCEPT !.ep = DialEnd(c)] ELSE u
    IN  [w EXCEPT !.left_node[n] = fix(@), !.right_node[n] = fix(@), !.new_node[n] = fix(@),
                  !.susp = 0]

\* ChatClient.handle_new_connection.  Where it awaits open_connection with
\* other tasks of the process alive, it returns suspended (susp # 0).
handle_new_connection(w, n, message) ==
    IF w.right_node[n] = None
    THEN LET parts == Split(Drop(message, 1))
         IN  IF Len(parts) # 2 \/ ~IsNumber(parts[Len(parts)]) THEN Raise(w, "ValueError")
             ELSE LET w1 == OpenConnection(w, n, parts[1], IntOfStr(parts[2]))
                  IN  IF w1.exc # "" THEN w1
                      ELSE [CountObject(w1, n) EXCEPT
                               !.right_node[n] = NewObject(w1, n, parts[1], IntOfStr(parts[2]),
                                                           DialEnd(w1.susp)),
                               !.susp = 0]
    ELSE IF message = <<>> THEN Raise(w, "IndexError")
    ELSE IF message[1] = 50
    THEN IF Len(message) < 2 THEN Raise(w, "IndexError")
         ELSE LET parts == Split(Drop(message, 2))
              IN  IF Len(parts) < 2 THEN Raise(w, "IndexError")
                  ELSE IF ~IsNumber(parts[2]) THEN Raise(w, "ValueError")
                  ELSE LET u == NewObject(w, n, parts[1], IntOfStr(parts[2]), 0)
                       IN  IF message[2] = 108
                           THEN [CountObject(w, n) EXCEPT
                                    !.left_node[n] = u,
                                    !.awaited_connection[n] = Append(@, u.host)]
                           ELSE OpenConnection([CountObject(w, n) EXCEPT !.right_node[n] = u],
                                               n, u.host, u.port)
    ELSE LET parts == Split(Drop(message, 1))
         IN  IF Len(parts) # 2 THEN Raise(w, "ValueError")
             ELSE LET w1 == [w EXCEPT !.awaited_connection[n] = Append(@, parts[1])]
                      p == pack_message(w.nickname[n], HANDLE_NEW_CONNECTION,
                                        <<49>> \o StrOf(me(n)))
                  IN  IF ~p.ok THEN Raise(w1, "struct.error")
                      ELSE SendOwn(w1, n, p.data, w1.left_node[n].ep)

\* ChatClient.print_message: number_to_rgb(nickname) is int(nickname)
print_message(w, n, nick, message) == IF IsNumber(nick) THEN w ELSE Raise(w, "ValueError")

\* ChatClient.disconnected_message
disconnected_message(w, n, nick, message) == w

\* ChatClient.connected_message
connected_message(w, n, nick, message) == w

\* a handler that prints the id and does not keep it
get_idUnkept(w, n, nick, message) == w

\* ChatClient.get_id
get_id(w, n, nick, message) == [w EXCEPT !.nickname[n] = message]

\* self.command_handlers[Command(command)](nickname, message)
command_handlers(w, n, command, nick, message) ==
    CASE command = PRINT_MESSAGE -> print_message(w, n, nick, message)
      [] command = DISCONNECTED_MESSAGE -> disconnected_message(w, n, nick, message)
      [] command = CONNECTED_MESSAGE -> connected_message(w, n, nick, message)
      [] command = GIVE_ID -> get_id(w, n, nick, message)
      [] OTHER -> handle_new_connection(w, n, message)

(***************************************************************************)
(* ChatClient.process_stream, one frame.                                   *)
(***************************************************************************)
\* if hashed_message in self.passed_messages: break
\* a membership test that finds nothing
IsDuplicateNever(w, n, h) == FALSE

\* line 199: the fingerprint is in passed_messages
IsDuplicate(w, n, h) == h \in w.passed_messages[n]

\* lines 215-225: what follows the handler's return (h: the frame's fingerprint)
AfterHandler(w, n, side, full, h) ==
    LET w1 == RecordHash(Log(w, n, full), n, h)
    IN  IF w1.exc # "" THEN w1
        ELSE IF full[1] = HANDLE_NEW_CONNECTION
        THEN IF unpack_message(full).message[1] = 48
             THEN Forward(w1, n, full, w1.left_node[n].ep) ELSE w1
        ELSE Forward(w1, n, full, w1.tasks[n][side].writer)

\* the entry point forwards the frame and hands out the id, but keeps its old
\* right neighbor
SpliceWithoutRepoint(w, n, full, h) ==
    LET w1 == RecordHash(w, n, h)
    IN  IF w1.exc # "" THEN w1
        ELSE IF w1.new_node[n] = None THEN Raise(w1, "AttributeError")
        ELSE LET w2 == Forward(w1, n, full, w1.new_node[n].ep)
                 p == pack_message(w1.nickname[n], GIVE_ID, IdOf(w1.new_node[n]))
             IN  IF w2.exc # "" THEN w2
                 ELSE IF ~p.ok THEN Raise(w2, "struct.error")
                 ELSE SendOwn(w2, n, p.data, w2.new_node[n].ep)

\* lines 204-213: the "1" frame, handled by the entry point of a join
SpliceNewMember(w, n, full, h) ==
    LET w1 == RecordHash(w, n, h)
    IN  IF w1.exc # "" THEN w1
        ELSE IF w1.new_node[n] = None THEN Raise(w1, "AttributeError")
        ELSE LET w2 == Forward(w1, n, full, w1.new_node[n].ep)
                 p == pack_message(w1.nickname[n], GIVE_ID, IdOf(w1.new_node[n]))
             IN  IF w2.exc # "" THEN w2
                 ELSE IF ~p.ok THEN Raise(w2, "struct.error")
                 ELSE LET w3 == SendOwn(w2, n, p.data, w2.new_node[n].ep)
                      IN  IF w3.exc # "" THEN w3
                          ELSE [w3 EXCEPT !.right_node[n] = w3.new_node[n]]

\* lines 198-225 for the frame full read by the task of the given side
process_frame(w, n, side, full) ==
    LET hashed_message == crc32(full)
    IN  IF HeaderLength(full) = 0 THEN w
        ELSE IF IsDuplicate(w, n, hashed_message) THEN w
        ELSE LET u == unpack_message(full)
             IN  IF ~u.ok THEN Raise(w, "TypeError")
                 ELSE IF u.command = HANDLE_NEW_CONNECTION /\ u.message = <<>>
                 THEN Raise(w, "IndexError")
                 ELSE IF u.command = HANDLE_NEW_CONNECTION /\ u.message[1] = 49
                 THEN SpliceNewMember(w, n, full, hashed_message)
                 ELSE LET w1 == command_handlers(w, n, u.command, u.nickname, u.message)
                      IN  IF w1.exc # "" \/ w1.susp # 0 THEN w1
                          ELSE AfterHandler(w1, n, side, full, hashed_message)

\* the task after the step: ended by an exception (process_node prints it),
\* suspended in a dial, or back at the read of the next header
Settle(w, n, side, full) ==
    IF w.exc # ""
    THEN [w EXCEPT !.tasks[n][side] = [NoTask EXCEPT !.st = "done"],
                   !.caught[n] = @ \cup {w.exc}, !.exc = ""]
    ELSE IF w.susp # 0
    THEN [w EXCEPT !.tasks[n][side] = [@ EXCEPT !.st = "dial", !.buf = full, !.conn = w.susp],
                   !.susp = 0]
    ELSE [w EXCEPT !.tasks[n][side] = [@ EXCEPT !.st = "run", !.buf = <<>>, !.conn = 0]]

(***************************************************************************)
(* Process exit: the finally clause of start_connection, then sys.exit.    *)
(***************************************************************************)
OwnEnds(w, n) ==
    {e \in 1..(2 * Len(w.conns)) :
        IF e % 2 = 1 THEN w.conns[ConnOf(e)].dialer = n ELSE w.conns[ConnOf(e)].acceptor = n}

\* lines 146-156: close the writers of the two slots; the process then ends and
\* the operating system drops whatever other connection it still holds
NodeExit(w, n, cause) ==
    LET closing == {w.left_node[n].ep, w.right_node[n].ep} \ {0}
    IN  [w EXCEPT !.status[n] = "exited",
                  !.exitCause[n] = cause,
                  !.tasks[n] = [s \in Sides |-> NoTask],
                  !.epState = [e \in Ends |->
                                  IF e \in closing /\ @[e] = "open" THEN "closed"
                                  ELSE IF e \in OwnEnds(w, n) /\ @[e] = "open" THEN "reset"
                                  ELSE @[e]],
                  !.exc = "", !.susp = 0]

\* an exception that leaves gather(receive_messages(), process_input())
ExitOnRaise(w, n) == IF w.exc # "" THEN NodeExit(w, n, w.exc) ELSE w

(***************************************************************************)
(* ChatClient.process_input.                                               *)
(***************************************************************************)
\* lines 248-259: a line that is none of the three commands
SendChatW(w, n, text) ==
    LET l == w.left_node[n].ep
        r == w.right_node[n].ep
        p == pack_message(w.nickname[n], PRINT_MESSAGE, text)
    IN  IF l = 0 /\ r = 0 THEN w
        ELSE IF ~p.ok THEN Raise(w, "struct.error")
        ELSE LET w1 == RecordHash([w EXCEPT !.typed[n] = @ (+) SetToBag({p.data}),
                                            !.framesRead = [m \in Node |->
                                                IF m = n THEN {<<0, p.data>>} ELSE {}]],
                                  n, crc32(p.data))
                 w2 == IF w1.exc # "" THEN w1 ELSE SendOwn(w1, n, p.data, l)
             IN  IF w2.exc # "" THEN w2 ELSE SendOwn(w2, n, p.data, r)

\* lines 233-241: "!disconnect"
DisconnectW(w, n) ==
    LET l == w.left_node[n].ep
        r == w.right_node[n].ep
        data == pack_message(w.nickname[n], DISCONNECTED_MESSAGE, w.nickname[n])
        right_data == pack_message(w.nickname[n], HANDLE_NEW_CONNECTION,
                                   <<50, 114>> \o StrOf(w.right_node[n]))
        left_data == pack_message(w.nickname[n], HANDLE_NEW_CONNECTION,
                                  <<50, 108>> \o StrOf(w.left_node[n]))
        w1 == SendOwn(w, n, data.data, l)
        w2 == IF w1.exc # "" THEN w1 ELSE SendOwn(w1, n, data.data, r)
        w3 == IF w2.exc # "" THEN w2 ELSE SendOwn(w2, n, right_data.data, l)
        w4 == IF w3.exc # "" THEN w3 ELSE SendOwn(w3, n, left_data.data, r)
    IN  IF ~(data.ok /\ right_data.ok /\ left_data.ok) THEN Raise(w, "struct.error")
        ELSE IF w4.exc # "" THEN w4 ELSE Raise(w4, "Disconnected")

(***************************************************************************)
(* ChatClient.handle_connection: the listener's callback.                  *)
(***************************************************************************)
\* list.remove(x): the first occurrence
RECURSIVE RemoveFirst(_, _)
RemoveFirst(s, x) ==
    IF s = <<>> THEN <<>>
    ELSE IF Head(s) = x THEN Tail(s) ELSE <<Head(s)>> \o RemoveFirst(Tail(s), x)

handle_connection(w, n, c) ==
    LET nn == NewObject(w, n, Host(w.conns[c].dialer), PeerPort(c), AcceptEnd(c))
        w0 == [CountObject(w, n) EXCEPT !.conns[c].accepted = TRUE]
    IN  IF w.right_node[n] # None /\ StrOf(w.right_node[n]) = StrOf(me(n))
        THEN LET p1 == pack_message(w.nickname[n], HANDLE_NEW_CONNECTION, <<49>> \o StrOf(me(n)))
                 w1 == [w0 EXCEPT !.awaited_connection[n] = Append(@, nn.host)]
                 w2 == SendOwn(w1, n, p1.data, nn.ep)
                 p2 == pack_message(w.nickname[n], GIVE_ID, IdOf(nn))
                 w3 == SendOwn(w2, n, p2.data, nn.ep)
             IN  IF ~p1.ok THEN Raise(w0, "struct.error")
                 ELSE IF w2.exc # "" THEN w2
                 ELSE IF ~p2.ok THEN Raise(w2, "struct.error")
                 ELSE IF w3.exc # "" THEN w3
                 ELSE [w3 EXCEPT !.right_node[n] = nn]
        ELSE IF nn.host \notin Range(w.awaited_connection[n])
        THEN LET p == pack_message(w.nickname[n], HANDLE_NEW_CONNECTION, <<48>> \o StrOf(nn))
                 w1 == [w0 EXCEPT !.new_node[n] = nn]
             IN  IF ~p.ok THEN Raise(w1, "struct.error")
                 ELSE IF w1.right_node[n] = None THEN Raise(w1, "AttributeError")
                 ELSE SendOwn(w1, n, p.data, w1.right_node[n].ep)
        ELSE [w0 EXCEPT !.left_node[n] = nn,
                        !.awaited_connection[n] = RemoveFirst(@, nn.host)]

\* except Exception as e: print(...)
Swallow(w, n) == IF w.exc # "" THEN [w EXCEPT !.caught[n] = @ \cup {w.exc}, !.exc = ""] ELSE w

(***************************************************************************)
(* The steps of a process.                                                 *)
(***************************************************************************)
\* start_connection, lines 97-102: no entry point was given
Bootstrap(n) ==
    /\ status[n] = "off"
    /\ SetWorld([World EXCEPT !.status[n] = "running",
                              !.nickname[n] = IdOf(me(n)),
                              !.left_node[n] = me(n),
                              !.right_node[n] = me(n)])

\* start_connection, lines 104-106: dial the entry point e
JoinDial(n, e) ==
    /\ status[n] = "off"
    /\ Len(conns) < MaxConn
    /\ LET w1 == OpenConnection(World, n, Host(e), ListenPort(e))
       IN  IF w1.exc # "" THEN SetWorld(NodeExit(w1, n, w1.exc))
           ELSE SetWorld([w1 EXCEPT !.status[n] = "hs1",
                                    !.left_node[n] = UserConnection(1, Host(e), ListenPort(e),
                                                                    DialEnd(w1.susp)),
                                    !.susp = 0])

\* the bytes of the next frame of a stream, <<>> while it is not complete
NextFrame(hdr, avail) ==
    LET h == IF hdr # <<>> THEN hdr ELSE Take(avail, HeaderSize)
        rest == IF hdr # <<>> THEN avail ELSE Drop(avail, HeaderSize)
    IN  IF Len(h) = HeaderSize /\ Len(rest) >= HeaderLength(h)
        THEN h \o Take(rest, HeaderLength(h)) ELSE <<>>

\* start_connection, lines 107-121 and 122-138: one frame of the handshake
HsFrame(n) ==
    /\ status[n] \in {"hs1", "hs2"}
    /\ ~lost[left_node[n].ep]
    /\ LET rd == left_node[n].ep
           full == NextFrame(<<>>, inbox[rd])
           u == unpack_message(full)
           w0 == [World EXCEPT !.inbox[rd] = Drop(@, Len(full))]
           w1 == IF HeaderLength(full) = 0 THEN Raise(w0, "Exception")
                 ELSE IF ~u.ok THEN Raise(w0, "TypeError")
                 ELSE command_handlers(w0, n, u.command, u.nickname, u.message)
           w2 == IF w1.exc = "" /\ w1.susp # 0 THEN FinishDial(w1, n, w1.susp) ELSE w1
       IN  /\ full # <<>>
           /\ Len(w2.conns) <= MaxConn
           /\ IF w2.exc # "" THEN SetWorld(NodeExit(w2, n, w2.exc))
              ELSE SetWorld([Log(w2, n, full) EXCEPT
                                !.status[n] = IF status[n] = "hs1" THEN "hs2" ELSE "running"])

\* the listener of the acceptor runs handle_connection for connection c
Accept(c) ==
    /\ c \in 1..Len(conns)
    /\ ~conns[c].accepted
    /\ status[conns[c].acceptor] = "running"
    /\ SetWorld(Swallow(handle_connection(World, conns[c].acceptor, c), conns[c].acceptor))

\* receive_messages, lines 170-182: both tasks of the last gather are over
\* (or there was none); the next ones take the readers and writers of now
NewTasks(n) ==
    [s \in Sides |->
        IF s = "R"
        THEN IF right_node[n] # None /\ right_node[n].ep # 0
             THEN [NoTask EXCEPT !.st = "run", !.reader = right_node[n].ep,
                                 !.writer = left_node[n].ep]
             ELSE NoTask
        ELSE IF left_node[n].ep # 0
             THEN [NoTask EXCEPT !.st = "run", !.reader = left_node[n].ep,
                                 !.writer = right_node[n].ep]
             ELSE NoTask]

RMCycle(n) ==
    /\ status[n] = "running"
    /\ \A s \in Sides : tasks[n][s].st \in {"none", "done"}
    /\ NewTasks(n) # tasks[n]
    /\ SetWorld([World EXCEPT !.tasks[n] = NewTasks(n)])

\* process_stream: a whole frame is there to read
ReadFrame(n, side) ==
    /\ status[n] = "running"
    /\ tasks[n][side].st \in {"run", "body"}
    /\ ~lost[tasks[n][side].reader]
    /\ LET t == tasks[n][side]
           full == NextFrame(t.buf, inbox[t.reader])
           w0 == [World EXCEPT !.inbox[t.reader] = Drop(@, Len(full) - Len(t.buf)),
                               !.framesRead[n] = @ \cup {<<t.reader, full>>}]
           w1 == Settle(process_frame(w0, n, side, full), n, side, full)
       IN  /\ full # <<>>
           /\ Len(w1.conns) <= MaxConn
           /\ SetWorld(w1)

\* process_stream: the header is there, the body is not: the task waits for it
ReadHeader(n, side) ==
    /\ status[n] = "running"
    /\ tasks[n][side].st = "run"
    /\ ~lost[tasks[n][side].reader]
    /\ LET t == tasks[n][side]
       IN  /\ Len(inbox[t.reader]) >= HeaderSize
           /\ NextFrame(<<>>, inbox[t.reader]) = <<>>
           /\ SetWorld([World EXCEPT !.inbox[t.reader] = Drop(@, HeaderSize),
                                     !.tasks[n][side].st = "body",
                                     !.tasks[n][side].buf = Take(inbox[t.reader], HeaderSize)])

\* the read a task waits in cannot complete from what has arrived
Starved(n, side) ==
    /\ tasks[n][side].st \in {"run", "body"}
    /\ NextFrame(tasks[n][side].buf, inbox[tasks[n][side].reader]) = <<>>
    /\ tasks[n][side].st = "run" => Len(inbox[tasks[n][side].reader]) < HeaderSize

\* a timeout that also closes the link whose read gave up
TimeoutClosing(n, side) ==
    /\ status[n] = "running"
    /\ Starved(n, side)
    /\ ~lost[tasks[n][side].reader]
    /\ epState[PeerEnd(tasks[n][side].reader)] = "open"
    /\ SetWorld([World EXCEPT !.tasks[n][side] = [NoTask EXCEPT !.st = "done"],
                              !.timedOut[n] = @ \cup {tasks[n][side].reader},
                              !.epState[tasks[n][side].reader] = "closed"])

\* asyncio.wait_for(..., timeout=2) gives up: process_node passes over the
\* TimeoutError and returns
Timeout(n, side) ==
    /\ status[n] = "running"
    /\ Starved(n, side)
    /\ ~lost[tasks[n][side].reader]
    /\ epState[PeerEnd(tasks[n][side].reader)] = "open"
    /\ SetWorld([World EXCEPT !.tasks[n][side] = [NoTask EXCEPT !.st = "done"],
                              !.timedOut[n] = @ \cup {tasks[n][side].reader}])

\* readexactly raises: end of stream before the bytes asked for
\* (IncompleteReadError), or the error the transport reported
ReadFail(n, side) ==
    /\ status[n] = "running"
    /\ tasks[n][side].st \in {"run", "body"}
    /\ \/ lost[tasks[n][side].reader]
       \/ Starved(n, side) /\ epState[PeerEnd(tasks[n][side].reader)] # "open"
    /\ SetWorld(Settle(Raise(World, IF lost[tasks[n][side].reader] THEN "ConnectionError"
                                    ELSE "IncompleteReadError"), n, side, <<>>))

\* handle_new_connection resumes from open_connection (line 334), then
\* process_stream goes on
DialDone(n, side) ==
    /\ status[n] = "running"
    /\ tasks[n][side].st = "dial"
    /\ LET t == tasks[n][side]
       IN  SetWorld(Settle(AfterHandler(FinishDial(World, n, t.conn), n, side, t.buf, crc32(t.buf)),
                           n, side, t.buf))

\* chat lines typed so far, over all nodes
TypedCount == LET RECURSIVE Sum(_)
                  Sum(S) == IF S = {} THEN 0
                            ELSE LET x == CHOOSE y \in S : TRUE
                                 IN  BagCardinality(typed[x]) + Sum(S \ {x})
              IN  Sum(Node)

\* process_input: a chat line
SendChat(n, text) ==
    /\ status[n] = "running"
    /\ left_node[n].ep # 0 \/ right_node[n].ep # 0
    /\ SetWorld(ExitOnRaise(SendChatW(World, n, text), n))

\* process_input: "!disconnect"
Disconnect(n) ==
    /\ status[n] = "running"
    /\ SetWorld(ExitOnRaise(DisconnectW(World, n), n))

(***************************************************************************)
(* The environment.                                                        *)
(***************************************************************************)
\* the process of n is killed: nothing is sent, every connection is reset
Crash(n) ==
    /\ status[n] = "running"
    /\ SetWorld([World EXCEPT !.status[n] = "exited", !.exitCause[n] = "killed",
                              !.tasks[n] = [s \in Sides |-> NoTask],
                              !.epState = [e \in Ends |->
                                  IF e \in OwnEnds(World, n) /\ @[e] = "open" THEN "reset" ELSE @[e]]])

\* bytes that are no frame of the protocol arrive at end e
Inject(e, bytes) ==
    /\ e \in 1..(2 * Len(conns))
    /\ epState[e] = "open"
    /\ SetWorld([World EXCEPT !.inbox[e] = @ \o bytes, !.injected = @ \cup {<<e, bytes>>}])

\* the transport of end e learns that the peer is gone: connection_lost
ConnLost(e) ==
    /\ e \in 1..(2 * Len(conns))
    /\ epState[e] = "open"
    /\ epState[PeerEnd(e)] # "open"
    /\ ~lost[e]
    /\ SetWorld([World EXCEPT !.lost[e] = TRUE])

(***************************************************************************)
(* The initial state: no process has started.                              *)
(***************************************************************************)
InitOff ==
    /\ status = [n \in Node |-> "off"]
    /\ exitCause = [n \in Node |-> ""]
    /\ left_node = [n \in Node |-> UserConnection(1, <<>>, 0, 0)]
    /\ right_node = [n \in Node |-> None]
    /\ nickname = [n \in Node |-> NoText]
    /\ history = [n \in Node |-> <<>>]
    /\ passed_messages = [n \in Node |-> {}]
    /\ awaited_connection = [n \in Node |-> <<>>]
    /\ new_node = [n \in Node |-> None]
    /\ nextOid = [n \in Node |-> 1]
    /\ tasks = [n \in Node |-> [s \in Sides |-> NoTask]]
    /\ conns = <<>>
    /\ inbox = [e \in Ends |-> <<>>]
    /\ epState = [e \in Ends |-> "open"]
    /\ lost = [e \in Ends |-> FALSE]
    /\ dispatched = [n \in Node |-> EmptyBag]
    /\ relayed = [n \in Node |-> EmptyBag]
    /\ originated = [n \in Node |-> {}]
    /\ recorded = [n \in Node |-> <<>>]
    /\ typed = [n \in Node |-> EmptyBag]
    /\ timedOut = [n \in Node |-> {}]
    /\ framesRead = [n \in Node |-> {}]
    /\ caught = [n \in Node |-> {}]
    /\ injected = {}
    /\ codec = NoCall
    /\ sized = NoSizedCall

(***************************************************************************)
(* Observations on a state.                                                *)
(***************************************************************************)
Running == {n \in Node : status[n] = "running"}

\* the node a slot refers to, by the host of the slot
NodeOfHost(h) == CHOOSE n \in Node : Host(n) = h

IsHost(h) == \E n \in Node : Host(n) = h

\* nothing is left to do but wait: no handshake, no dial, no connection waiting
\* for its handle_connection, no byte waiting on an end that a slot or a task reads
Quiet ==
    /\ \A n \in Node : status[n] \notin {"hs1", "hs2"}
    /\ \A c \in 1..Len(conns) : conns[c].accepted \/ status[conns[c].acceptor] # "running"
    /\ \A n \in Running :
          /\ \A s \in Sides : tasks[n][s].st \notin {"dial", "body"}
          /\ \A e \in ({left_node[n].ep, right_node[n].ep}
                       \cup {tasks[n][s].reader : s \in Sides}) \ {0} :
                inbox[e] = <<>> /\ (epState[PeerEnd(e)] = "open" \/ \A s \in Sides : tasks[n][s].reader # e)

(***************************************************************************)
(* SpecJoin: A starts alone, B joins through A, then C joins through A.    *)
(***************************************************************************)
JoinB == status["A"] = "running" /\ JoinDial("B", "A")

JoinC ==
    /\ status["B"] = "running"
    /\ \A c \in 1..Len(conns) : conns[c].accepted
    /\ JoinDial("C", "A")

NextJoin ==
    \/ Bootstrap("A")
    \/ JoinB
    \/ JoinC
    \/ \E n \in Node : HsFrame(n)
    \/ \E c \in 1..MaxConn : Accept(c)
    \/ \E n \in Node : RMCycle(n)
    \/ \E n \in Node, s \in Sides : ReadFrame(n, s)
    \/ \E n \in Node, s \in Sides : Timeout(n, s)

SpecJoin == InitOff /\ [][NextJoin]_vars

\* the process that holds end e
OwnerOf(e) == IF e % 2 = 1 THEN conns[ConnOf(e)].dialer ELSE conns[ConnOf(e)].acceptor

\* the slot u of a node names node m and holds an open connection to it
LinkTo(u, m) ==
    /\ u.host = Host(m)
    /\ u.ep # 0
    /\ OwnerOf(PeerEnd(u.ep)) = m
    /\ epState[u.ep] = "open" /\ epState[PeerEnd(u.ep)] = "open"

RightOf(n) == NodeOfHost(right_node[n].host)

LeftOf(n) == NodeOfHost(left_node[n].host)

\* n's right link and the left link of n's right neighbor are the two ends of
\* one connection, and so for n's left link
Linked(n) ==
    /\ IsHost(right_node[n].host) /\ IsHost(left_node[n].host)
    /\ LinkTo(right_node[n], RightOf(n))
    /\ LinkTo(left_node[n], LeftOf(n))
    /\ left_node[RightOf(n)].ep = PeerEnd(right_node[n].ep)
    /\ right_node[LeftOf(n)].ep = PeerEnd(left_node[n].ep)

\* S is one cycle under the right pointers, consistent with the left pointers
RingOf(S) ==
    /\ \A n \in S : Linked(n) /\ RightOf(n) \in S /\ LeftOf(n) \in S
    /\ \A n \in S : LeftOf(RightOf(n)) = n /\ RightOf(LeftOf(n)) = n
    /\ \A n \in S : Cardinality(S) = 3 => {n, RightOf(n), RightOf(RightOf(n))} = S
    /\ \A n \in S : Cardinality(S) = 2 => RightOf(n) # n

\* C3: A alone has both slots on itself; once B's join through A is over the
\* ring is A<->B; once C's join through A is over the three nodes are one cycle
\* under the right pointers, and left(right(n)) = n = right(left(n)).
ThreeNodeJoin ==
    /\ (status["A"] = "running" /\ conns = <<>>)
          => left_node["A"] = me("A") /\ right_node["A"] = me("A")
    /\ (Quiet /\ Running = {"A", "B"} /\ status["C"] = "off") => RingOf({"A", "B"})
    /\ (Quiet /\ Running = Node) => RingOf(Node)

ThreeNodeJoinWitness == Quiet /\ Running = Node /\ RingOf(Node) /\ Len(conns) = 4

(***************************************************************************)
(* The stable ring A -> C -> B -> A that SpecJoin ends in, every node with *)
(* the read tasks of its present links: the initial state of the           *)
(* specifications about a ring whose membership does not change.           *)
(***************************************************************************)
Frame0C == pack_message(IdOf(me("A")), HANDLE_NEW_CONNECTION,
                        <<48>> \o Host("C") \o <<Colon>> \o StrOfInt(PeerPort(3))).data

Frame1A == pack_message(IdOf(me("A")), HANDLE_NEW_CONNECTION, <<49>> \o StrOf(me("A"))).data

Frame1B == pack_message(IdOf(UserConnection(0, Host("B"), PeerPort(1), 0)),
                        HANDLE_NEW_CONNECTION, <<49>> \o StrOf(me("B"))).data

FrameId(n, c) == pack_message(IdOf(me("A")), GIVE_ID,
                              IdOf(UserConnection(0, Host(n), PeerPort(c), 0))).data

RunTask(rd, wr) == [NoTask EXCEPT !.st = "run", !.reader = rd, !.writer = wr]

InitRing ==
    /\ status = [n \in Node |-> "running"]
    /\ exitCause = [n \in Node |-> ""]
    /\ left_node = [n \in Node |->
          CASE n = "A" -> UserConnection(3, Host("B"), PeerPort(2), AcceptEnd(2))
            [] n = "B" -> UserConnection(3, Host("C"), PeerPort(4), AcceptEnd(4))
            [] OTHER -> UserConnection(1, Host("A"), ListenPort("A"), DialEnd(3))]
    /\ right_node = [n \in Node |->
          CASE n = "A" -> UserConnection(4, Host("C"), PeerPort(3), AcceptEnd(3))
            [] n = "B" -> UserConnection(2, Host("A"), ListenPort("A"), DialEnd(2))
            [] OTHER -> UserConnection(2, Host("B"), ListenPort("B"), DialEnd(4))]
    /\ nickname = [n \in Node |->
          CASE n = "A" -> IdOf(me("A"))
            [] n = "B" -> IdOf(UserConnection(0, Host("B"), PeerPort(1), 0))
            [] OTHER -> IdOf(UserConnection(0, Host("C"), PeerPort(3), 0))]
    /\ history = [n \in Node |->
          CASE n = "A" -> <<crc32(Frame1B), crc32(Frame0C)>>
            [] n = "B" -> <<crc32(Frame0C), crc32(Frame1A)>>
            [] OTHER -> <<>>]
    /\ passed_messages = [n \in Node |-> Range(history[n])]
    /\ awaited_connection = [n \in Node |-> IF n = "A" THEN <<Host("C")>> ELSE <<>>]
    /\ new_node = [n \in Node |->
          IF n = "A" THEN UserConnection(4, Host("C"), PeerPort(3), AcceptEnd(3)) ELSE None]
    /\ nextOid = [n \in Node |-> CASE n = "A" -> 4 [] n = "B" -> 3 [] OTHER -> 2]
    /\ tasks = [n \in Node |->
          [s \in Sides |->
              IF s = "R" THEN RunTask(right_node[n].ep, left_node[n].ep)
              ELSE RunTask(left_node[n].ep, right_node[n].ep)]]
    /\ conns = <<[dialer |-> "B", acceptor |-> "A", accepted |-> TRUE],
                 [dialer |-> "B", acceptor |-> "A", accepted |-> TRUE],
                 [dialer |-> "C", acceptor |-> "A", accepted |-> TRUE],
                 [dialer |-> "C", acceptor |-> "B", accepted |-> TRUE]>>
    /\ inbox = [e \in Ends |-> <<>>]
    /\ epState = [e \in Ends |-> "open"]
    /\ lost = [e \in Ends |-> FALSE]
    /\ dispatched = [n \in Node |->
          CASE n = "A" -> SetToBag({Frame0C})
            [] n = "B" -> SetToBag({Frame1A, FrameId("B", 1), Frame0C})
            [] OTHER -> SetToBag({Frame1B, FrameId("C", 3)})]
    /\ relayed = [n \in Node |->
          CASE n = "A" -> SetToBag({Frame1B, Frame0C})
            [] n = "B" -> SetToBag({Frame0C})
            [] OTHER -> EmptyBag]
    /\ originated = [n \in Node |->
          CASE n = "A" -> {Frame0C, Frame1A}
            [] n = "B" -> {Frame1B}
            [] OTHER -> {}]
    /\ recorded = history
    /\ typed = [n \in Node |-> EmptyBag]
    /\ timedOut = [n \in Node |->
          CASE n = "A" -> {AcceptEnd(1), AcceptEnd(2)}
            [] n = "B" -> {DialEnd(1)}
            [] OTHER -> {}]
    /\ framesRead = [n \in Node |->
          CASE n = "A" -> {<<AcceptEnd(1), Frame1B>>, <<AcceptEnd(1), Frame0C>>}
            [] n = "B" -> {<<DialEnd(1), Frame0C>>, <<DialEnd(2), Frame1A>>, <<DialEnd(2), Frame0C>>}
            [] OTHER -> {}]
    /\ caught = [n \in Node |-> IF n = "B" THEN {"AttributeError"} ELSE {}]
    /\ injected = {}
    /\ codec = NoCall
    /\ sized = NoSizedCall

(***************************************************************************)
(* SpecRing: the stable ring of three, the line "a" typed at A and at B,   *)
(* once or more often, frames read as fast as they arrive (no read waits   *)
(* two seconds).                                                           *)
(***************************************************************************)
\* the lines typed: "a" and "b"
Texts == {<<97>>, <<98>>}

\* the line typed in SpecRing
RingTexts == {<<97>>}

\* the nodes lines are typed at
Senders == {"A", "B"}

TypeLine == TypedCount < MaxSends /\ \E n \in Senders, text \in RingTexts : SendChat(n, text)

NextRing ==
    \/ TypeLine
    \/ \E n \in Node, s \in Sides : ReadFrame(n, s)

SpecRing == InitRing /\ [][NextRing]_vars

\* the chat frames typed so far, at any node
TypedFrames == UNION {BagToSet(typed[n]) : n \in Node}

\* how often process_stream of n forwarded frame f, over all links
RelayCount(n, f) == CopiesIn(f, relayed[n])

\* C1: every chat line typed at a node of the stable ring is dispatched exactly
\* once at every other node, whatever was typed before it, and never at the
\* node it was typed at: no node dispatches a frame more often than it was
\* typed, and once nothing is left in flight every other node has dispatched
\* it as often as it was typed.
ChatDeliveredOnce ==
    \A n \in Node : \A f \in BagToSet(typed[n]) :
        /\ ~BagIn(f, dispatched[n])
        /\ \A m \in Node \ {n} : CopiesIn(f, dispatched[m]) <= CopiesIn(f, typed[n])
        /\ Quiet => \A m \in Node \ {n} : CopiesIn(f, dispatched[m]) = CopiesIn(f, typed[n])

\* the step is process_stream of n reading, on the link of side s, a whole
\* frame whose fingerprint is in passed_messages
DuplicateRead(n, s) ==
    LET t == tasks[n][s]
        full == NextFrame(t.buf, inbox[t.reader])
    IN  /\ status[n] = "running"
        /\ t.st \in {"run", "body"}
        /\ full # <<>>
        /\ inbox'[t.reader] = Drop(inbox[t.reader], Len(full) - Len(t.buf))
        /\ crc32(full) \in passed_messages[n]

\* the frame that DuplicateRead(n, s) reads
DuplicateFrame(n, s) == NextFrame(tasks[n][s].buf, inbox[tasks[n][s].reader])

\* the second delivery changes neither the history nor a neighbor slot, runs
\* no handler and writes nothing
Dropped(n, s) ==
    /\ history'[n] = history[n]
    /\ passed_messages'[n] = passed_messages[n]
    /\ left_node'[n] = left_node[n]
    /\ right_node'[n] = right_node[n]
    /\ dispatched' = dispatched
    /\ relayed' = relayed
    /\ \A e \in Ends \ {tasks[n][s].reader} : inbox'[e] = inbox[e]

\* no node runs the handler for one frame, or forwards one frame, twice
AtMostOnce ==
    \A n \in Node : \A f \in BagToSet(dispatched[n]) :
        CopiesIn(f, dispatched[n]) = 1 /\ RelayCount(n, f) <= 1

LocalSendRecorded ==
    \A n \in Node : \A f \in originated[n] :
        /\ crc32(f) \in Range(recorded[n])
        /\ ~BagIn(f, dispatched[n])
        /\ RelayCount(n, f) = 0

(***************************************************************************)
(* SpecLeave: B types "!disconnect" in the stable ring.                    *)
(***************************************************************************)
NextLeave ==
    \/ Disconnect("B")
    \/ \E n \in Node, s \in Sides : ReadFrame(n, s)
    \/ \E n \in Node, s \in Sides : ReadFail(n, s)
    \/ \E n \in Node, s \in Sides : DialDone(n, s)
    \/ \E c \in 1..MaxConn : Accept(c)
    \/ \E n \in Node, s \in Sides : Timeout(n, s)
    \/ \E n \in Node : RMCycle(n)

SpecLeave == InitRing /\ [][NextLeave]_vars

\* no slot of n names node m
NoSlotNames(n, m) ==
    /\ left_node[n].host # Host(m)
    /\ right_node[n] # None => right_node[n].host # Host(m)

\* C4: once B has left by "!disconnect" and nothing it sent is left to
\* process, A and C are each other's neighbor over open connections, no slot
\* of A or C names B, and their awaited_connection lists are empty.
LeaveRepairsRing ==
    (status["B"] = "exited" /\ Quiet) =>
        /\ RingOf({"A", "C"})
        /\ \A n \in {"A", "C"} : NoSlotNames(n, "B")
        /\ \A n \in {"A", "C"} : awaited_connection[n] = <<>>

(***************************************************************************)
(* SpecIdle: the stable ring with reads of A and of B, its left neighbor,  *)
(* that time out, and lines typed at A while the read task of its left     *)
(* link is over by a timeout.                                              *)
(***************************************************************************)
TypeIdle ==
    /\ TypedCount < MaxIdleSends
    /\ \E n \in {"A"}, text \in Texts :
          /\ tasks[n]["L"].st = "done"
          /\ left_node[n].ep \in timedOut[n]
          /\ SendChat(n, text)

NextIdle ==
    \/ \E n \in Senders, s \in Sides : Timeout(n, s)
    \/ \E n \in Senders : RMCycle(n)
    \/ TypeIdle
    \/ \E n \in Node, s \in Sides : ReadFrame(n, s)

SpecIdle == InitRing /\ [][NextIdle]_vars

\* the step is the timeout of the read that the task of side s of n waits in
TimeoutStep(n, s) == Starved(n, s) /\ tasks'[n][s].st = "done"

\* the step is a chat line typed at n
TypeStep(n) == typed'[n] # typed[n]

\* the frame of the line typed in the step
TypedNow(n) == CHOOSE f \in BagToSet(typed'[n]) : CopiesIn(f, typed'[n]) > CopiesIn(f, typed[n])

LineText(k) == StrOfInt(k)

\* the frame of A's first line
FirstFrame == pack_message(nickname["A"], PRINT_MESSAGE, LineText(0)).data

Drained == \A e \in Ends : inbox[e] = <<>>

\* the different lines typed so far
FreshCount == Cardinality(BagToSet(typed["A"]))

TypeFresh ==
    /\ Drained
    /\ TypedCount < MaxLines
    /\ SendChat("A", LineText(FreshCount))

TypeAgain ==
    /\ Drained
    /\ TypedCount < MaxLines
    /\ FreshCount >= 1
    /\ TypedCount - FreshCount < MaxRepeats
    /\ \/ FreshCount = 1
       \/ \A n \in Node : crc32(FirstFrame) \notin passed_messages[n]
    /\ SendChat("A", LineText(0))

NextHist ==
    \/ TypeFresh
    \/ TypeAgain
    \/ \E n \in Node, s \in Sides : ReadFrame(n, s)

SpecHist == InitRing /\ [][NextHist]_vars

\* C5: at every node the membership set holds exactly the fingerprints of
\* the FIFO, the FIFO holds at most 64 of them, and recording a fingerprint
\* has never failed.
HistorySetIsFifo ==
    \A n \in Node :
        /\ passed_messages[n] = Range(history[n])
        /\ Len(history[n]) <= HistoryMax
        /\ "KeyError" \notin caught[n]
        /\ exitCause[n] # "KeyError"

\* no fingerprint was recorded again by n less than 64 records after it was
\* recorded (as when all the fingerprints recorded are different)
SpacedRecords(n) ==
    \A i, j \in 1..Len(recorded[n]) :
        (i < j /\ recorded[n][i] = recorded[n][j]) => j - i >= HistoryMax

\* the step is process_stream of n reading a whole chat frame on the link of
\* side s
ChatRead(n, s) ==
    LET t == tasks[n][s]
        full == NextFrame(t.buf, inbox[t.reader])
    IN  /\ status[n] = "running"
        /\ t.st \in {"run", "body"}
        /\ full # <<>>
        /\ full[1] = PRINT_MESSAGE
        /\ inbox'[t.reader] = Drop(inbox[t.reader], Len(full) - Len(t.buf))

\* the fingerprints n recorded last, as many as the history can hold
LastRecorded(n) == LastK(recorded[n], HistoryMax)

\* C6: while a node records fingerprints that are all different (or come
\* again only once they are 64 records old), its history is the last 64 it
\* recorded, in that order: the 65th record evicts the first, the oldest
\* goes first every time.  A chat frame that arrives is dropped when its
\* fingerprint is among the last 64 recorded and dispatched (again) when it
\* is not.
HistoryBound ==
    /\ [](\A n \in Node : SpacedRecords(n) =>
              /\ history[n] = LastRecorded(n)
              /\ passed_messages[n] = Range(LastRecorded(n)))
    /\ [][ \A n \in Node, s \in Sides :
              (ChatRead(n, s) /\ SpacedRecords(n)) =>
                  IF crc32(DuplicateFrame(n, s)) \in Range(LastRecorded(n))
                  THEN dispatched'[n] = dispatched[n] /\ recorded'[n] = recorded[n]
                  ELSE /\ dispatched'[n] = dispatched[n] (+) SetToBag({DuplicateFrame(n, s)})
                       /\ recorded'[n] = Append(recorded[n], crc32(DuplicateFrame(n, s))) ]_vars

\* a node has recorded 65 different fingerprints and more, the first line's
\* among the first of them; the first line came again and was dispatched a
\* second time, while the history holds the last 64 records
HistoryBoundWitness ==
    \E n \in Node \ {"A"} :
        /\ Len(recorded[n]) > HistoryMax + 1
        /\ SpacedRecords(n)
        /\ \E i \in 1..(Len(recorded[n]) - HistoryMax) : recorded[n][i] = crc32(FirstFrame)
        /\ CopiesIn(FirstFrame, dispatched[n]) = 2
        /\ history[n] = LastRecorded(n)
        /\ history[n][HistoryMax] = crc32(FirstFrame)

(***************************************************************************)
(* SpecBad: bytes that are no frame arrive once on A's left link, the link *)
(* from B; B types lines afterwards.  A's reads may time out.              *)
(***************************************************************************)
\* command id 9, one byte of body
BadCommand == <<9, 1, 0, 0, 0, 120>>

\* a nickname of 3 bytes in a body of 1
BadNickLength == <<PRINT_MESSAGE, 1, 0, 3, 0, 120>>

\* the header announces 4 bytes of body, 1 comes
ShortFrame == <<PRINT_MESSAGE, 4, 0, 0, 0, 120>>

BadFrames == {BadCommand, BadNickLength, ShortFrame}

InjectBad ==
    /\ injected = {}
    /\ TypedCount = 0
    /\ \E g \in BadFrames : Inject(left_node["A"].ep, g)

TypeAfterBad ==
    /\ TypedCount < MaxIdleSends
    /\ injected # {}
    /\ \E text \in Texts : SendChat("B", text)

NextBad ==
    \/ InjectBad
    \/ TypeAfterBad
    \/ \E n \in Node, s \in Sides : ReadFrame(n, s)
    \/ \E s \in Sides : ReadHeader("A", s)
    \/ \E s \in Sides : Timeout("A", s)
    \/ RMCycle("A")

SpecBad == InitRing /\ [][NextBad]_vars

\* the read task of side s of n waits for a header and less than a header is
\* there: all that came on the link has been taken
Idle(n, s) ==
    /\ tasks[n][s].st = "run"
    /\ Len(inbox[tasks[n][s].reader]) < HeaderSize

\* the frame of the line typed last and the node it was typed at
LastTyped == UNION {{<<m, k[2]>> : k \in {x \in framesRead[m] : x[1] = 0}} : m \in Node}

\* C9: bytes that cannot be decoded or dispatched are not dispatched and not
\* forwarded (no chat frame is dispatched or forwarded that nobody typed),
\* the slots stay as they are and every node keeps running; and the read loop
\* goes on: when it has taken all that came on a link, it has read, whole,
\* the frame of the line typed last that was written to that link.
BadFrameDropped ==
    /\ \A n \in Node : status[n] = "running"
    /\ RingOf(Node)
    /\ \A k \in injected : \A n \in Node : ~BagIn(k[2], dispatched[n]) /\ RelayCount(n, k[2]) = 0
    /\ \A n \in Node : \A f \in BagToSet(dispatched[n]) \cup BagToSet(relayed[n]) :
          f[1] = PRINT_MESSAGE => f \in TypedFrames
    /\ \A k \in LastTyped : \A n \in Node \ {k[1]}, s \in Sides :
          (/\ Idle(n, s)
           /\ PeerEnd(tasks[n][s].reader) \in {left_node[k[1]].ep, right_node[k[1]].ep})
              => <<tasks[n][s].reader, k[2]>> \in framesRead[n]

(***************************************************************************)
(* SpecFail: C is killed in the stable ring; the transports of A and B     *)
(* learn of it sooner or later; lines are typed at A.                      *)
(***************************************************************************)
TypeAtA == TypedCount < MaxIdleSends /\ \E text \in Texts : SendChat("A", text)

NextFail ==
    \/ Crash("C")
    \/ \E e \in Ends : ConnLost(e)
    \/ \E n \in Node, s \in Sides : ReadFail(n, s)
    \/ \E n \in Node, s \in Sides : ReadFrame(n, s)
    \/ TypeAtA

SpecFail == InitRing /\ [][NextFail]_vars

\* C10: the failure of the link to a neighbor that is gone, however the node
\* comes to see it, ends no node that was not killed.
SurvivesLinkFailure ==
    \A n \in Node : status[n] = "running" \/ exitCause[n] = "killed"

(***************************************************************************)
(* Process exit and the connections of the process.                        *)
(***************************************************************************)
\* the ends the process of n holds: it dialed or accepted their connection
EndsOf(n) == OwnEnds(World, n)

\* the process of n ended by itself: by "!disconnect", by a join that failed,
\* or by an exception that left start_connection
Terminated(n) == status[n] = "exited" /\ exitCause[n] # "killed"

\* C11: when a node has terminated, by whatever path, the writer of every
\* connection it dialed or accepted in its lifetime has been closed by it, the
\* connections no slot refers to any more included; a slot without a
\* connection does not keep the node from closing the other.
GuaranteedClose ==
    \A n \in Node : Terminated(n) => \A e \in EndsOf(n) : epState[e] = "closed"

(***************************************************************************)
(* SpecCodec: in the stable ring, pack_message is applied to a command, the *)
(* id of a node and a text, and unpack_message to the bytes it returned;   *)
(* pack_message is applied to texts about as long as a frame can hold; a   *)
(* line too long for a frame is typed at A.                                *)
(***************************************************************************)
\* "a", " " and the two-byte Cyrillic letter sha
Alphabet == {97, 32, 1096}

\* the short texts
CodecTexts == UNION {[1..k -> Alphabet] : k \in 0..MaxText}

\* k times the code point c
RECURSIVE Rep(_, _)
Rep(k, c) ==
    IF k = 0 THEN <<>>
    ELSE IF k % 2 = 1 THEN Append(Rep(k - 1, c), c)
    ELSE LET half == Rep(k \div 2, c) IN half \o half

\* the bytes a frame of n has left for the payload
Room(n) == MaxTotal - Len(Utf8Encode(nickname[n]))

\* the long texts: as long as a frame of n can hold, one byte longer, and as
\* long with a blank after or before
LongTexts(n) ==
    {Rep(Room(n), 97), Rep(Room(n) + 1, 97), Append(Rep(Room(n), 97), 32),
     <<32>> \o Rep(Room(n), 97)}

\* a line one byte too long for a frame of n
OverTexts(n) == {Rep(Room(n) + 1, 97)}

\* data = pack_message(command, text) at n
Pack(n, command, text) ==
    /\ status[n] = "running"
    /\ codec.st = "idle" /\ sized.st = "idle"
    /\ LET p == pack_message(nickname[n], command, text)
       IN  SetWorld([World EXCEPT !.codec = [st |-> "packed", command |-> command,
                                             nick |-> nickname[n], message |-> text,
                                             ok |-> p.ok, data |-> p.data,
                                             out |-> [ok |-> FALSE]]])

\* unpack_message(data) of the bytes packed last
Unpack ==
    /\ codec.st = "packed"
    /\ codec.ok
    /\ SetWorld([World EXCEPT !.codec = [@ EXCEPT !.st = "unpacked",
                                                  !.out = unpack_message(codec.data)]])

\* pack_message(PRINT_MESSAGE, text) at n for a long text: the sizes only
PackSized(n, text) ==
    /\ status[n] = "running"
    /\ codec.st = "idle" /\ sized.st = "idle"
    /\ LET p == pack_message(nickname[n], PRINT_MESSAGE, text)
       IN  SetWorld([World EXCEPT !.sized =
                        [st |-> "packed", nick |-> Len(Utf8Encode(nickname[n])),
                         size |-> Len(Utf8Encode(text)), ok |-> p.ok,
                         total |-> IF p.ok THEN HeaderLength(p.data) ELSE 0,
                         nickLen |-> IF p.ok THEN HeaderNickLength(p.data) ELSE 0]])

\* process_input of A: a line too long for a frame
TypeOver ==
    /\ codec.st = "idle" /\ sized.st = "idle"
    /\ \E text \in OverTexts("A") : SendChat("A", text)

NextCodec ==
    \/ \E n \in Node, command \in Commands, text \in CodecTexts : Pack(n, command, text)
    \/ Unpack
    \/ \E n \in Node : \E text \in LongTexts(n) : PackSized(n, text)
    \/ TypeOver

SpecCodec == InitRing /\ [][NextCodec]_vars

\* C12: pack_message succeeds on every command, id and text whose bytes fit
\* a frame, unpack_message of the result gives back the command, the id and
\* the text as they went in, and the two lengths of the header are the byte
\* counts of id plus text and of the id.
CodecRoundTrip ==
    /\ codec.st # "idle" => codec.ok
    /\ codec.st = "unpacked" =>
          /\ codec.out = [ok |-> TRUE, command |-> codec.command,
                          nickname |-> codec.nick, message |-> codec.message]
          /\ HeaderLength(codec.data)
                = Len(Utf8Encode(codec.nick)) + Len(Utf8Encode(codec.message))
          /\ HeaderNickLength(codec.data) = Len(Utf8Encode(codec.nick))

\* the step is process_input of n leaving by the error of pack_message
PackFailure(n) == exitCause[n] = "" /\ exitCause'[n] = "struct.error"

\* C13: pack_message fails exactly when the bytes of the id and of the text
\* together are more than 65535, and a line it fails on is written to no
\* link and leaves the dedup history as it was.
OversizeRejected ==
    /\ [](sized.st = "packed" => (sized.ok <=> sized.nick + sized.size <= MaxTotal))
    /\ [][ \A n \in Node :
              PackFailure(n) =>
                  /\ inbox' = inbox
                  /\ history' = history /\ passed_messages' = passed_messages
                  /\ recorded' = recorded ]_vars

(***************************************************************************)
(* The awaited_connection lists over the joins of SpecJoin.                *)
(***************************************************************************)
\* the nodes whose awaited_connection holds host h
Awaiting(h) == {n \in Node : h \in Range(awaited_connection[n])}

\* how often host h is in the list of n
AwaitedCopies(n, h) == Cardinality({i \in 1..Len(awaited_connection[n]) : awaited_connection[n][i] = h})

\* C14: the host of a joining node is in the awaited_connection of at most
\* one node at a time, and there once; when the joins are over (nothing is
\* left to process) no awaited_connection holds the host of a node that has
\* joined, so that a later connection from that host would be taken as a new
\* join request.
AwaitedOncePerJoin ==
    /\ \A m \in Node : Cardinality(Awaiting(Host(m))) <= 1
    /\ \A m, n \in Node : AwaitedCopies(n, Host(m)) <= 1
    /\ Quiet => \A m \in Running : Awaiting(Host(m)) = {}

(***************************************************************************)
(* The join of C through A into the ring of A and B (SpecJoin): A's right  *)
(* neighbor at the time of the request is B.                               *)
(***************************************************************************)
\* the control frames read by the read loops of n
ControlRead(n) == {k[2] : k \in {x \in framesRead[n] : x[2][1] = HANDLE_NEW_CONNECTION}}

\* the frames of command c that n's handshake or read loops ran the handler for
DispatchedOf(n, c) == {f \in BagToSet(dispatched[n]) : f[1] = c}

\* C15: C's join request through A is acted on by B alone: the only control
\* frames a read loop gets are the request at B and B's new-member frame at
\* A, which hands it on to C; only B runs the handler for the request and
\* only B awaits C's host; no read task fails; C gets one new-member frame,
\* the one with B's address, and one ASSIGN_ID frame, each once.
JoinTerminatesOnce ==
    /\ ControlRead("A") \subseteq {Frame1B}
    /\ ControlRead("B") \subseteq {Frame0C}
    /\ ControlRead("C") = {}
    /\ \A n \in Node \ {"B"} :
          ~BagIn(Frame0C, dispatched[n]) /\ Host("C") \notin Range(awaited_connection[n])
    /\ \A n \in Node : caught[n] = {}
    /\ status["C"] = "running" =>
          /\ DispatchedOf("C", HANDLE_NEW_CONNECTION) = {Frame1B}
          /\ DispatchedOf("C", GIVE_ID) = {FrameId("C", 3)}
          /\ BagCardinality(dispatched["C"]) = 2

(***************************************************************************)
(* SpecChurn: A starts alone and B joins through it; one of the two leaves *)
(* by "!disconnect"; C then joins through the one that is left.  A join or *)
(* a leave begins only when nothing of the one before is left to process.  *)
(***************************************************************************)
ChurnJoin ==
    /\ Quiet
    /\ \/ Running = {"A"} /\ status["B"] = "off" /\ JoinDial("B", "A")
       \/ \E e \in Running : Running = {e} /\ status["B"] # "off" /\ JoinDial("C", e)

ChurnLeave ==
    /\ Quiet
    /\ Running = {"A", "B"}
    /\ \E n \in Running : Disconnect(n)

NextChurn ==
    \/ Bootstrap("A")
    \/ ChurnJoin
    \/ ChurnLeave
    \/ \E n \in Node : HsFrame(n)
    \/ \E c \in 1..MaxConn : Accept(c)
    \/ \E n \in Node : RMCycle(n)
    \/ \E n \in Node, s \in Sides : ReadFrame(n, s)
    \/ \E n \in Node, s \in Sides : ReadFail(n, s)
    \/ \E n \in Node, s \in Sides : DialDone(n, s)
    \/ \E n \in Node, s \in Sides : Timeout(n, s)

SpecChurn == InitOff /\ [][NextChurn]_vars

\* line 359: the node takes an inbound connection as a node that is alone
Solo(n) ==
    /\ StrOf(left_node[n]) = StrOf(me(n))
    /\ right_node[n] # None /\ StrOf(right_node[n]) = StrOf(me(n))

\* C16: after joins and announced leaves, one at a time, each over before
\* the next begins, the nodes that run are one ring (open links, right and
\* left pointers inverse to each other, the right pointers going through all
\* of them) when they are two or more, and a node left alone has both slots
\* on itself and takes the next connection as a node that is alone.
RingStable ==
    Quiet =>
        /\ Cardinality(Running) >= 2 => RingOf(Running)
        /\ \A n \in Running : Running = {n} => Solo(n)

(***************************************************************************)
(* SpecSplice: the joins of SpecJoin, and a line typed at B once C has     *)
(* joined and before a read has timed out: the read tasks of A may still   *)
(* be the ones that were made before the splice.                           *)
(***************************************************************************)
TypeAfterJoin ==
    /\ TypedCount < MaxIdleSends
    /\ Running = Node
    /\ \A c \in 1..Len(conns) : conns[c].accepted
    /\ \A n \in Node : timedOut[n] = {}
    /\ \E text \in RingTexts : SendChat("B", text)

NextSplice ==
    \/ Bootstrap("A")
    \/ JoinB
    \/ JoinC
    \/ \E n \in Node : HsFrame(n)
    \/ \E c \in 1..MaxConn : Accept(c)
    \/ \E n \in Node : RMCycle(n)
    \/ \E n \in Node, s \in Sides : ReadFrame(n, s)
    \/ \E n \in Node, s \in Sides : Timeout(n, s)
    \/ TypeAfterJoin

SpecSplice == InitOff /\ [][NextSplice]_vars

\* PRINT, DISCONNECTED and CONNECTED: the frames that are relayed on
Relayable == {PRINT_MESSAGE, DISCONNECTED_MESSAGE, CONNECTED_MESSAGE}

\* the link of n on the other side of its link e
Opposite(n, e) == IF e = left_node[n].ep THEN right_node[n].ep ELSE left_node[n].ep

\* the step is the read task of side s of n reading, on the link of one of
\* n's two slots, a whole frame to relay on, and running the handler for it
RelayRead(n, s) ==
    LET t == tasks[n][s]
        full == NextFrame(t.buf, inbox[t.reader])
    IN  /\ status[n] = "running"
        /\ t.st \in {"run", "body"}
        /\ full # <<>>
        /\ full[1] \in Relayable
        /\ t.reader \in {left_node[n].ep, right_node[n].ep}
        /\ inbox'[t.reader] = Drop(inbox[t.reader], Len(full) - Len(t.buf))
        /\ dispatched'[n] = dispatched[n] (+) SetToBag({full})

\* C17: a PRINT, DISCONNECTED or CONNECTED frame that a node dispatches is
\* written once, unchanged, to the link of the slot on the other side of the
\* link it was read from, as the slots are at that moment, and to no other
\* link.
RelayOpposite ==
    [][ \A n \in Node, s \in Sides :
            RelayRead(n, s) =>
                LET rd == tasks[n][s].reader
                    out == PeerEnd(Opposite(n, rd))
                IN  /\ Opposite(n, rd) # 0
                    /\ inbox'[out] = inbox[out] \o DuplicateFrame(n, s)
                    /\ \A e \in Ends \ {out, rd} : inbox'[e] = inbox[e] ]_vars

(***************************************************************************)
(* How far a frame goes round.                                             *)
(***************************************************************************)
\* the forwards of frame f, over all nodes
Hops(f) ==
    LET RECURSIVE Sum(_)
        Sum(S) == IF S = {} THEN 0
                  ELSE LET x == CHOOSE y \in S : TRUE IN RelayCount(x, f) + Sum(S \ {x})
    IN  Sum(Node)

\* the frames packed and written to a neighbor link so far, by any node
Originated == UNION {originated[n] : n \in Node}

\* the nodes of the ring C's join request is sent into
RequestRing == {"A", "B"}

\* C18: no node forwards a frame more than once, the node a frame started
\* from does not forward it at all when it comes back (so it is forwarded at
\* most N-1 times in a direction and the flooding ends); the join request
\* for C, sent by A to its right neighbor in the ring of two, is forwarded
\* at most once.
BoundedCirculation ==
    /\ \A f \in Originated : \A m \in Node : RelayCount(m, f) <= 1
    /\ \A n \in Node : \A f \in originated[n] : RelayCount(n, f) = 0
    /\ Hops(Frame0C) <= Cardinality(RequestRing) - 1

(***************************************************************************)
(* SpecJoinFair: the joins of SpecJoin with every process going on as long *)
(* as it has something to do.                                              *)
(***************************************************************************)
\* the steps of the main task of process n: its handshake, then its read loops
LoopOf(n) ==
    \/ HsFrame(n)
    \/ RMCycle(n)
    \/ \E s \in Sides : ReadFrame(n, s)
    \/ \E s \in Sides : Timeout(n, s)

\* the steps of the listener of process n
ListenerOf(n) == \E c \in 1..MaxConn : c <= Len(conns) /\ conns[c].acceptor = n /\ Accept(c)

\* a whole frame waits for the handshake of n
HsReady(n) ==
    /\ status[n] \in {"hs1", "hs2"}
    /\ ~lost[left_node[n].ep]
    /\ NextFrame(<<>>, inbox[left_node[n].ep]) # <<>>

\* a connection waits for the listener of n
AcceptReady(n) ==
    /\ status[n] = "running"
    /\ \E c \in 1..Len(conns) : conns[c].acceptor = n /\ ~conns[c].accepted

\* a whole frame waits for the read task of n on this side
ReadReady(n, s) ==
    /\ status[n] = "running"
    /\ tasks[n][s].st \in {"run", "body"}
    /\ ~lost[tasks[n][s].reader]
    /\ NextFrame(tasks[n][s].buf, inbox[tasks[n][s].reader]) # <<>>

\* the read of the task of n on this side will time out
TimeoutReady(n, s) ==
    /\ status[n] = "running"
    /\ Starved(n, s)
    /\ ~lost[tasks[n][s].reader]
    /\ epState[PeerEnd(tasks[n][s].reader)] = "open"

\* both read tasks of n are over and receive_messages makes the next ones
CycleReady(n) ==
    /\ status[n] = "running"
    /\ \A s \in Sides : tasks[n][s].st \in {"none", "done"}
    /\ NewTasks(n) # tasks[n]

\* the main task of process n has a step to take
LoopReady(n) ==
    \/ HsReady(n)
    \/ CycleReady(n)
    \/ \E s \in Sides : ReadReady(n, s) \/ TimeoutReady(n, s)

\* the event loop of a process runs every task that is ready to run: a main
\* task or a listener that has a step to take from some time on takes one
\* (weak fairness of LoopOf(n) and of ListenerOf(n), with LoopReady(n) and
\* AcceptReady(n) for ENABLED <<LoopOf(n)>>_vars and ENABLED <<ListenerOf(n)>>_vars)
Fairness ==
    \A n \in Node :
        /\ ([]<>~LoopReady(n)) \/ ([]<><<LoopOf(n)>>_vars)
        /\ ([]<>~AcceptReady(n)) \/ ([]<><<ListenerOf(n)>>_vars)

SpecJoinFair == SpecJoin /\ Fairness

\* the node a joining node dials first
Entry == "A"

\* the connection n dialed the entry point with: its first
FirstDial(n) ==
    CHOOSE c \in 1..Len(conns) :
        conns[c].dialer = n /\ \A d \in 1..(c - 1) : conns[d].dialer # n

\* what the entry point assigns: hash(str(new_node)) % 10 ** 9 of the
\* connection n dialed it with
AssignedId(n) == IdOf(UserConnection(0, Host(n), PeerPort(FirstDial(n)), 0))

\* frame f is the new-member frame with the address of m
Names(f, m) ==
    LET u == unpack_message(f)
    IN  u.ok /\ u.command = HANDLE_NEW_CONNECTION /\ u.message = <<49>> \o StrOf(me(m))

\* frame f is the ASSIGN_ID frame for n
Assigns(f, n) ==
    LET u == unpack_message(f)
    IN  u.ok /\ u.command = GIVE_ID /\ u.message = AssignedId(n)

\* the handshake of n, frame by frame: nothing handled before the first
\* frame; after it only the new-member frame, once
InHandshakeOrder(n) ==
    /\ status[n] = "hs1" => dispatched[n] = EmptyBag
    /\ status[n] = "hs2" =>
          /\ BagCardinality(dispatched[n]) = 1
          /\ \E m \in Running : \A f \in BagToSet(dispatched[n]) : Names(f, m)

\* n is a member: it listens and runs its loops, with its id as assigned,
\* an open link to the entry point in the left slot and an open link to the
\* peer the new-member frame named in the right slot; these two have n on
\* the other end of those links, as left and as right neighbor
Joined(n) ==
    /\ status[n] = "running"
    /\ n \in Listeners(World, Host(n), ListenPort(n))
    /\ LinkTo(left_node[n], Entry) /\ left_node[n].ep = DialEnd(FirstDial(n))
    /\ IsHost(right_node[n].host) /\ LinkTo(right_node[n], RightOf(n))
    /\ right_node[Entry].ep = PeerEnd(left_node[n].ep)
    /\ left_node[RightOf(n)].ep = PeerEnd(right_node[n].ep)
    /\ nickname[n] = AssignedId(n)
    /\ BagCardinality(dispatched[n]) = 2
    /\ \E f \in BagToSet(dispatched[n]) : Names(f, RightOf(n))
    /\ \E f \in BagToSet(dispatched[n]) : Assigns(f, n)

DisconnectOne == Running = Node /\ \E n \in Node : Disconnect(n)

NextRepoint ==
    \/ DisconnectOne
    \/ \E n \in Node, s \in Sides : ReadFrame(n, s)
    \/ \E n \in Node, s \in Sides : ReadFail(n, s)
    \/ \E n \in Node, s \in Sides : DialDone(n, s)
    \/ \E c \in 1..MaxConn : Accept(c)

SpecRepoint == InitRing /\ [][NextRepoint]_vars

\* the nodes that have left by "!disconnect"
Left == {n \in Node : exitCause[n] = "Disconnected"}

\* the repoint frame of tag "2r" or "2l" with address addr, as n packs it
RepointFrame(n, tag, addr) ==
    pack_message(nickname[n], HANDLE_NEW_CONNECTION, <<50, tag>> \o addr).data

\* the connections of the stable ring
RingConns == 1..4

\* the connections dialed by l to r after the ring was built
Redials(l, r) ==
    {c \in 1..Len(conns) \ RingConns : conns[c].dialer = l /\ conns[c].acceptor = r}

\* handle_connection of r runs for connection c in this step
Accepts(r, c) ==
    /\ c <= Len(conns) /\ conns[c].acceptor = r
    /\ ~conns[c].accepted /\ conns'[c].accepted

\* C20: a node that leaves by "!disconnect" has written to its left
\* neighbor l the frame "2r" with the address its right neighbor r listens
\* on, and to r the frame "2l" with the address of its left slot; whenever
\* the listener of r then gets the connection l dialed, it takes it as its
\* left link and not as a join request (no new_node, no request frame), and
\* once l's dial is over its right slot holds that connection.
RepointOrdering ==
    /\ [](\A n \in Left :
            /\ RepointFrame(n, 114, StrOf(me(RightOf(n)))) \in originated[n]
            /\ RepointFrame(n, 108, StrOf(left_node[n])) \in originated[n])
    /\ [][\A n \in Left : \A c \in 1..MaxConn :
            (c \in Redials(LeftOf(n), RightOf(n)) /\ Accepts(RightOf(n), c)) =>
                /\ left_node'[RightOf(n)].ep = AcceptEnd(c)
                /\ new_node'[RightOf(n)] = new_node[RightOf(n)]
                /\ originated'[RightOf(n)] = originated[RightOf(n)]]_vars
    /\ [](\A n \in Left :
            Quiet =>
                \E c \in Redials(LeftOf(n), RightOf(n)) : right_node[LeftOf(n)].ep = DialEnd(c))

(***************************************************************************)
(* SpecDup: the stable ring; one frame as B packs it arrives on both links *)
(* of C, and the two read tasks of C take the copies in any order.         *)
(***************************************************************************)
\* the frames that arrive twice: a chat line of B, B's departure notice,
\* and B's repoint frame "2r" with the address A listens on
DupFrames ==
    { pack_message(nickname["B"], PRINT_MESSAGE, <<97>>).data,
      pack_message(nickname["B"], DISCONNECTED_MESSAGE, nickname["B"]).data,
      RepointFrame("B", 114, StrOf(me("A"))) }

\* the wire delivers frame f on the left and on the right link of n
DeliverBoth(n, f) ==
    /\ injected = {}
    /\ status[n] = "running"
    /\ LET l == left_node[n].ep
           r == right_node[n].ep
       IN  SetWorld([World EXCEPT !.inbox[l] = @ \o f,
                                  !.inbox[r] = @ \o f,
                                  !.injected = @ \cup {<<l, f>>, <<r, f>>}])

NextDup ==
    \/ \E f \in DupFrames : DeliverBoth("C", f)
    \/ \E n \in Node, s \in Sides : ReadFrame(n, s)
    \/ \E n \in Node, s \in Sides : DialDone(n, s)
    \/ \E c \in 1..MaxConn : Accept(c)
    \/ \E s \in Sides : Timeout("C", s)
    \/ RMCycle("C")

SpecDup == InitRing /\ [][NextDup]_vars

\* how often n ran the handler for frame f to its end
DispatchCount(n, f) == CopiesIn(f, dispatched[n])

Peers == Node \cup {"D"}

InitWide ==
    /\ status = [n \in Peers |-> "off"]
    /\ exitCause = [n \in Peers |-> ""]
    /\ left_node = [n \in Peers |-> UserConnection(1, <<>>, 0, 0)]
    /\ right_node = [n \in Peers |-> None]
    /\ nickname = [n \in Peers |-> NoText]
    /\ history = [n \in Peers |-> <<>>]
    /\ passed_messages = [n \in Peers |-> {}]
    /\ awaited_connection = [n \in Peers |-> <<>>]
    /\ new_node = [n \in Peers |-> None]
    /\ nextOid = [n \in Peers |-> 1]
    /\ tasks = [n \in Peers |-> [s \in Sides |-> NoTask]]
    /\ conns = <<>>
    /\ inbox = [e \in Ends |-> <<>>]
    /\ epState = [e \in Ends |-> "open"]
    /\ lost = [e \in Ends |-> FALSE]
    /\ dispatched = [n \in Peers |-> EmptyBag]
    /\ relayed = [n \in Peers |-> EmptyBag]
    /\ originated = [n \in Peers |-> {}]
    /\ recorded = [n \in Peers |-> <<>>]
    /\ typed = [n \in Peers |-> EmptyBag]
    /\ timedOut = [n \in Peers |-> {}]
    /\ framesRead = [n \in Peers |-> {}]
    /\ caught = [n \in Peers |-> {}]
    /\ injected = {}
    /\ codec = NoCall
    /\ sized = NoSizedCall

\* C dials A once B's join is over
JoinFirst ==
    /\ status["B"] = "running"
    /\ \A c \in 1..Len(conns) : conns[c].accepted
    /\ JoinDial("C", "A")

\* D dials A while C is in its handshake
JoinSecond ==
    /\ status["C"] \in {"hs1", "hs2"}
    /\ JoinDial("D", "A")

\* bytes wait on a link of n that none of its read tasks reads: they are
\* read once the reads that wait have timed out and the tasks are made anew
Unread(n) ==
    \E e \in {left_node[n].ep, right_node[n].ep} \ {0} :
        inbox[e] # <<>> /\ \A s \in Sides : tasks[n][s].reader # e

NextOverlap ==
    \/ Bootstrap("A")
    \/ JoinB
    \/ JoinFirst
    \/ JoinSecond
    \/ \E n \in Peers : HsFrame(n)
    \/ \E c \in 1..MaxConn : Accept(c)
    \/ \E n \in Peers : RMCycle(n)
    \/ \E n \in Peers, s \in Sides : ReadFrame(n, s)
    \/ \E n \in Peers, s \in Sides : Unread(n) /\ Timeout(n, s)

SpecOverlap == InitWide /\ [][NextOverlap]_vars

\* the two that join at the same time
Candidates == {"C", "D"}

\* the request A packs for n at line 369
Request(n) ==
    pack_message(IdOf(me("A")), HANDLE_NEW_CONNECTION,
                 <<48>> \o Host(n) \o <<Colon>> \o StrOfInt(PeerPort(FirstDial(n)))).data

\* n has handled a frame of its handshake
Served(n) == status[n] \in {"hs2", "running"}

\* nothing is left to do: no connection waits for its listener, no whole
\* frame waits for a handshake or on a link that a slot or a read task of a
\* running process reads
Settled ==
    /\ \A c \in 1..Len(conns) : conns[c].accepted \/ status[conns[c].acceptor] # "running"
    /\ \A n \in Peers :
          /\ status[n] \in {"hs1", "hs2"} => NextFrame(<<>>, inbox[left_node[n].ep]) = <<>>
          /\ status[n] = "running" =>
                /\ \A s \in Sides : tasks[n][s].st \notin {"dial", "body"}
                /\ \A e \in ({left_node[n].ep, right_node[n].ep}
                             \cup {tasks[n][s].reader : s \in Sides}) \ {0} : inbox[e] = <<>>

\* the process at the other end of the connection in slot u
Behind(u) == OwnerOf(PeerEnd(u.ep))

\* the four are one cycle: every slot holds an open connection, the process
\* behind the right slot of n has n behind its left slot over the same
\* connection, and the right slots lead from A through all four
OneCycle ==
    /\ \A n \in Peers :
          /\ right_node[n] # None /\ right_node[n].ep # 0 /\ left_node[n].ep # 0
          /\ epState[right_node[n].ep] = "open" /\ epState[left_node[n].ep] = "open"
          /\ left_node[Behind(right_node[n])].ep = PeerEnd(right_node[n].ep)
          /\ right_node[Behind(left_node[n])].ep = PeerEnd(left_node[n].ep)
    /\ LET a == Behind(right_node["A"])
           b == Behind(right_node[a])
           c == Behind(right_node[b])
       IN  {"A", a, b, c} = Peers

\* C22: with C and D joining through A at the same time, a candidate gets
\* its new-member frame only after A's right neighbor B has handled the
\* request made for it, and the id it keeps is the one of its own
\* connection; when nothing is left to do both have joined, each having
\* handled one new-member frame and one ASSIGN_ID frame, and the four are
\* one cycle.
OverlappingJoins ==
    /\ \A n \in Candidates :
          /\ Served(n) => BagIn(Request(n), dispatched["B"])
          /\ status[n] = "running" => nickname[n] = AssignedId(n)
    /\ (Settled /\ status["D"] # "off") =>
          /\ \A n \in Candidates :
                /\ status[n] = "running"
                /\ \E f \in BagToSet(dispatched[n]) :
                      Names(f, "B") /\ CopiesIn(f, dispatched[n]) = 1
                /\ \E f \in BagToSet(dispatched[n]) :
                      Assigns(f, n) /\ CopiesIn(f, dispatched[n]) = 1
          /\ OneCycle

====
